---- MODULE Spec2Model ----
(***************************************************************************)
(* GoogleDriveManager (src/manager.py): get_drive_link,                    *)
(* create_sheet_with_data and add_column_with_drive_files, run against a   *)
(* Drive folder tree and one spreadsheet.                                  *)
(*                                                                         *)
(* Strings are sequences of tokens: a dataset value is a sequence of       *)
(* one-character tokens, so that os.path.basename, the link and the        *)
(* =IMAGE formula are computed and not assumed.  A behaviour is one call   *)
(* of create_sheet_with_data, one call of add_column_with_drive_files, or  *)
(* up to MaxCalls consecutive direct calls of get_drive_link.              *)
(***************************************************************************)
EXTENDS Integers, Sequences, FiniteSets, TLC

VARIABLES
    pc,             \* "idle", "patch" (loop of lines 136-151), "links" (loop of lines 176-178), "done"
    op,             \* the method the caller invoked: "none", "create", "addcol", "resolve"
    result,         \* "none" while running, "returned", or the name of the exception raised
    sheet_name,     \* argument sheet_name
    df,             \* argument df / df_files: [index |-> labels, rows |-> records]
    image_cols,     \* argument image_cols, in dict order: sequence of [col, folder]
    start_position, \* argument start_position of add_column_with_drive_files
    ci,             \* position of the outer loop in image_cols
    ri,             \* position of the inner loop (iterrows) in df
    exists,         \* the sheets (tabs) of the spreadsheet
    dims,           \* sheet -> <<rows, cols>> of its grid
    cells,          \* sheet -> row -> column -> value
    perms,          \* ids of the Drive files readable by anyone
    log,            \* history: the get_drive_link invocations, in order
    writes,         \* history: the update_cell requests that succeeded, in order
    bulk,           \* history: the payloads of the worksheet.update requests that succeeded
    calls           \* number of direct get_drive_link calls made

vars == <<pc, op, result, sheet_name, df, image_cols, start_position, ci, ri,
          exists, dims, cells, perms, log, writes, bulk, calls>>

-----------------------------------------------------------------------------
(* Bounds *)

MaxRows == 2
MaxCalls == 2

-----------------------------------------------------------------------------
(* Values *)

Missing == <<"NaN">>                      \* NaN / None of a DataFrame cell
NoneVal == <<"None">>                     \* Python None returned by get_drive_link
Blank == <<>>                             \* the empty string, also an empty sheet cell
Old == <<"old">>                          \* content a sheet held before the call

Columns == <<"other", "img">>             \* df.columns
NCols == Len(Columns)

SheetNames == {"S", "T"}
Folders == {"F1", "F2"}

\* The Drive folders: the listing order of files().list is the order here.
\* Two files of F1 share the name "a".
Drive ==
    [F1 |-> << [id |-> "id1", name |-> <<"a">>],
               [id |-> "id2", name |-> <<"a">>],
               [id |-> "id3", name |-> <<"c">>] >>,
     F2 |-> << [id |-> "id4", name |-> <<"b">>] >>]

IntLabel(n) == [int |-> TRUE, val |-> n]
StrLabel == [int |-> FALSE, val |-> 0]    \* a label that is not a number
Labels == {IntLabel(n) : n \in 0..MaxRows} \cup {StrLabel}

GridRows == MaxRows + 2
GridCols == NCols + 1

ImageValues == {Missing, Blank, <<"d", "/", "a">>, <<"b">>}
OtherValues == {Missing, <<"x">>}

RangeIndex(n) == [p \in 1..n |-> IntLabel(p - 1)]

\* Datasets with pandas' default index, every combination of values.
DefaultDatasets ==
    UNION {{[index |-> RangeIndex(n), rows |-> r] :
                r \in [1..n -> [other : OtherValues, img : ImageValues]]} :
           n \in 0..MaxRows}

\* Datasets with any index (filtered, re-ordered, duplicated, non-integer labels).
LabelledDatasets ==
    UNION {{[index |-> i, rows |-> r] :
                i \in [1..n -> Labels],
                r \in [1..n -> [other : {<<"x">>}, img : {Missing, <<"d", "/", "a">>, <<"b">>}]]} :
           n \in 1..MaxRows}

Datasets == DefaultDatasets \cup LabelledDatasets

ImageColsChoices ==
    { <<>>,
      << [col |-> "img", folder |-> "F1"] >>,
      << [col |-> "img", folder |-> "F2"] >>,
      << [col |-> "other", folder |-> "F1"], [col |-> "img", folder |-> "F1"] >> }

\* df_files: a 'Drive ID' column and an index.
FileDatasets ==
    UNION {{[index |-> i, rows |-> r] :
                i \in [1..n -> Labels],
                r \in [1..n -> [DriveID : {"id1", "id4"}]]} :
           n \in 0..MaxRows}

ColumnName == <<"links">>

-----------------------------------------------------------------------------
(* Pure functions *)

Max(S) == CHOOSE x \in S : \A y \in S : y <= x

\* os.path.basename: what follows the last "/".
Basename(p) ==
    LET slashes == {i \in 1..Len(p) : p[i] = "/"}
    IN  IF slashes = {} THEN p ELSE SubSeq(p, Max(slashes) + 1, Len(p))

\* pd.isna(file_path) or file_path == ""
IsEmpty(v) == v = Missing \/ v = Blank

\* Mutant of Fillna: the missing values are left as they are.
FillnaKept(v) == v

\* df.fillna("")
Fillna(v) == IF v = Missing THEN Blank ELSE v

\* f"https://drive.google.com/uc?id={file_id}"
DriveLink(file_id) == <<"https://drive.google.com/uc?id=", file_id>>

\* f'=IMAGE("{drive_link}")'
ImageFormula(drive_link) == <<"=IMAGE(\"">> \o drive_link \o <<"\")">>

\* df.columns.get_loc(image_col) + 1
ColumnOf(col) == (CHOOSE k \in 1..NCols : Columns[k] = col)

\* index + 2, for an integer label
RowOf(label) == label.val + 2

\* [df.columns.values.tolist()] + df.fillna("").values.tolist()
Payload(d) ==
    << [k \in 1..NCols |-> <<Columns[k]>>] >> \o
    [p \in 1..Len(d.rows) |-> [k \in 1..NCols |-> Fillna(d.rows[p][Columns[k]])]]

\* files().list(q="name='<file_name>' and '<subfolder_id>' in parents")
ListFiles(file_name, subfolder_id) ==
    SelectSeq(Drive[subfolder_id], LAMBDA f : f.name = file_name)

ListOutcomes == {"ok", "HttpError"}
GrantOutcomes == {"ok", "HttpError", "TimeoutError"}

\* Mutant of GetDriveLink: the HttpError of the permission grant is swallowed
\* and the link is returned all the same.
GetDriveLinkIgnoringError(file_name, subfolder_id, listOut, grantOut) ==
    LET items == ListFiles(file_name, subfolder_id)
        ids == [j \in 1..Len(items) |-> items[j].id]
    IN  IF listOut # "ok"
        THEN [exc |-> listOut, ret |-> NoneVal, listRes |-> listOut, listed |-> <<>>,
              grantId |-> "", grantRes |-> "none"]
        ELSE IF items = <<>>
        THEN [exc |-> "", ret |-> NoneVal, listRes |-> "ok", listed |-> ids,
              grantId |-> "", grantRes |-> "none"]
        ELSE IF grantOut \in {"ok", "HttpError"}
        THEN [exc |-> "", ret |-> DriveLink(items[1].id), listRes |-> "ok",
              listed |-> ids, grantId |-> items[1].id, grantRes |-> grantOut]
        ELSE [exc |-> grantOut, ret |-> NoneVal, listRes |-> "ok",
              listed |-> ids, grantId |-> items[1].id, grantRes |-> grantOut]

\* Mutant of GetDriveLink: a file that is already public is not granted again.
GetDriveLinkCached(file_name, subfolder_id, listOut, grantOut) ==
    LET items == ListFiles(file_name, subfolder_id)
        ids == [j \in 1..Len(items) |-> items[j].id]
    IN  IF listOut # "ok"
        THEN [exc |-> listOut, ret |-> NoneVal, listRes |-> listOut, listed |-> <<>>,
              grantId |-> "", grantRes |-> "none"]
        ELSE IF items = <<>>
        THEN [exc |-> "", ret |-> NoneVal, listRes |-> "ok", listed |-> ids,
              grantId |-> "", grantRes |-> "none"]
        ELSE IF items[1].id \in perms
        THEN [exc |-> "", ret |-> DriveLink(items[1].id), listRes |-> "ok",
              listed |-> ids, grantId |-> "", grantRes |-> "none"]
        ELSE IF grantOut = "ok"
        THEN [exc |-> "", ret |-> DriveLink(items[1].id), listRes |-> "ok",
              listed |-> ids, grantId |-> items[1].id, grantRes |-> "ok"]
        ELSE IF grantOut = "HttpError"
        THEN [exc |-> "", ret |-> NoneVal, listRes |-> "ok",
              listed |-> ids, grantId |-> items[1].id, grantRes |-> "HttpError"]
        ELSE [exc |-> grantOut, ret |-> NoneVal, listRes |-> "ok",
              listed |-> ids, grantId |-> items[1].id, grantRes |-> grantOut]

\* get_drive_link (lines 71-89), given what the two remote requests do.
\* exc: the exception that leaves the function, "" when it returns;
\* listRes, listed: the listing request and the ids it returned;
\* grantId, grantRes: the permissions().create request ("none": not issued).
GetDriveLink(file_name, subfolder_id, listOut, grantOut) ==
    LET items == ListFiles(file_name, subfolder_id)
        ids == [j \in 1..Len(items) |-> items[j].id]
    IN  IF listOut # "ok"
        THEN [exc |-> listOut, ret |-> NoneVal, listRes |-> listOut, listed |-> <<>>,
              grantId |-> "", grantRes |-> "none"]
        ELSE IF items = <<>>
        THEN [exc |-> "", ret |-> NoneVal, listRes |-> "ok", listed |-> ids,
              grantId |-> "", grantRes |-> "none"]
        ELSE LET file_id == items[1].id
             IN  IF grantOut = "ok"
                 THEN [exc |-> "", ret |-> DriveLink(file_id), listRes |-> "ok",
                       listed |-> ids, grantId |-> file_id, grantRes |-> "ok"]
                 ELSE IF grantOut = "HttpError"
                 THEN [exc |-> "", ret |-> NoneVal, listRes |-> "ok",
                       listed |-> ids, grantId |-> file_id, grantRes |-> "HttpError"]
                 ELSE [exc |-> grantOut, ret |-> NoneVal, listRes |-> "ok",
                       listed |-> ids, grantId |-> file_id, grantRes |-> grantOut]

LogEntry(pos, col, file_name, subfolder_id, r) ==
    [pos |-> pos, col |-> col, name |-> file_name, folder |-> subfolder_id,
     exc |-> r.exc, ret |-> r.ret, listRes |-> r.listRes, listed |-> r.listed,
     grantId |-> r.grantId, grantRes |-> r.grantRes]

PermsAfter(r) == IF r.grantRes = "ok" THEN perms \cup {r.grantId} ELSE perms

\* worksheet.update(values): the range anchored at A1 is overwritten, nothing else.
BulkUpdate(c, s, payload) ==
    [c EXCEPT ![s] =
        [r \in 1..GridRows |-> [k \in 1..GridCols |->
            IF r <= Len(payload) /\ k <= Len(payload[r]) THEN payload[r][k] ELSE @[r][k]]]]

\* worksheet.update_cell(row, col, value)
UpdateCell(c, s, row, col, v) == [c EXCEPT ![s][row][col] = v]

BlankGrid == [r \in 1..GridRows |-> [k \in 1..GridCols |-> Blank]]
OldGrid == [r \in 1..GridRows |-> [k \in 1..GridCols |-> Old]]

\* sh.worksheet(sheet_name) finds the sheet (line 129)
WorksheetFound(s) == s \in exists

\* Mutant of AddColSheetFound: the missing sheet is not noticed.
AddColSheetAssumed(s) == s \in SheetNames

\* sh.worksheet(sheet_name) finds the sheet (line 170); otherwise line 172 raises
AddColSheetFound(s) == s \in exists

\* rows=len(df) + 10, cols=len(df.columns) + 10 (line 131)
SheetPadding == 10

-----------------------------------------------------------------------------
(* State machine *)

EmptyDataset == [index |-> <<>>, rows |-> <<>>]

Init ==
    /\ pc = "idle"
    /\ op = "none"
    /\ result = "none"
    /\ sheet_name = "S"
    /\ df = EmptyDataset
    /\ image_cols = <<>>
    /\ start_position = 1
    /\ ci = 1
    /\ ri = 1
    /\ exists = {"S"}
    /\ dims = [s \in SheetNames |-> IF s = "S" THEN <<GridRows, GridCols>> ELSE <<0, 0>>]
    /\ cells = [s \in SheetNames |-> IF s = "S" THEN OldGrid ELSE BlankGrid]
    /\ perms \in {{}, {"id1"}}
    /\ log = <<>>
    /\ writes = <<>>
    /\ bulk = <<>>
    /\ calls = 0

Raise(e) ==
    /\ pc' = "done"
    /\ result' = e

\* A direct call of get_drive_link (lines 60-89).
ResolveCall ==
    /\ pc = "idle"
    /\ op \in {"none", "resolve"}
    /\ calls < MaxCalls
    /\ \E file_name \in {<<"a">>, <<"b">>}, subfolder_id \in Folders,
          listOut \in ListOutcomes, grantOut \in GrantOutcomes :
          LET r == GetDriveLink(file_name, subfolder_id, listOut, grantOut)
          IN  /\ (r.grantRes = "none" => grantOut = "ok")
              /\ log' = Append(log, LogEntry(0, "", file_name, subfolder_id, r))
              /\ perms' = PermsAfter(r)
              /\ result' = IF r.exc = "" THEN "returned" ELSE r.exc
    /\ op' = "resolve"
    /\ calls' = calls + 1
    /\ UNCHANGED <<pc, sheet_name, df, image_cols, start_position, ci, ri,
                   exists, dims, cells, writes, bulk>>

\* create_sheet_with_data, lines 127-133: open the spreadsheet, find or add the
\* sheet, write the header and the rows in one request.
CreateSetup ==
    /\ pc = "idle"
    /\ op = "none"
    /\ \E s \in SheetNames, d \in Datasets, ic \in ImageColsChoices,
          out \in {"ok", "open_error", "add_error", "update_error"} :
          /\ sheet_name' = s
          /\ df' = d
          /\ image_cols' = ic
          /\ op' = "create"
          /\ IF out = "open_error"
             THEN /\ Raise("APIError")
                  /\ UNCHANGED <<exists, dims, cells, bulk>>
             ELSE IF out = "add_error"
             THEN /\ ~WorksheetFound(s)
                  /\ Raise("APIError")
                  /\ UNCHANGED <<exists, dims, cells, bulk>>
             ELSE /\ exists' = exists \cup {s}
                  /\ dims' = IF WorksheetFound(s) THEN dims
                             ELSE [dims EXCEPT ![s] = <<Len(d.rows) + SheetPadding, NCols + SheetPadding>>]
                  /\ IF out = "update_error"
                     THEN /\ Raise("APIError")
                          /\ cells' = IF WorksheetFound(s) THEN cells
                                      ELSE [cells EXCEPT ![s] = BlankGrid]
                          /\ UNCHANGED bulk
                     ELSE /\ pc' = "patch"
                          /\ result' = "none"
                          /\ cells' = BulkUpdate(
                                IF WorksheetFound(s) THEN cells
                                ELSE [cells EXCEPT ![s] = BlankGrid], s, Payload(d))
                          /\ bulk' = Append(bulk, Payload(d))
    /\ ci' = 1
    /\ ri' = 1
    /\ UNCHANGED <<start_position, perms, log, writes, calls>>

\* The loops of lines 136-137 move on to the next (image column, row).
Advance ==
    IF ri < Len(df.rows)
    THEN /\ ri' = ri + 1 /\ ci' = ci
    ELSE /\ ri' = 1 /\ ci' = ci + 1

\* worksheet.update_cell(index + 2, df.columns.get_loc(image_col) + 1, value),
\* lines 141, 149, 151: index + 2 raises TypeError for a label that is not a number.
PatchWrite(value, cellOut) ==
    LET label == df.index[ri]
        col == image_cols[ci].col
    IN  IF ~label.int
        THEN /\ Raise("TypeError")
             /\ UNCHANGED <<cells, writes, ci, ri>>
        ELSE IF cellOut # "ok"
        THEN /\ Raise("APIError")
             /\ UNCHANGED <<cells, writes, ci, ri>>
        ELSE /\ cells' = UpdateCell(cells, sheet_name, RowOf(label), ColumnOf(col), value)
             /\ writes' = Append(writes, [pos |-> ri, col |-> col, row |-> RowOf(label),
                                          column |-> ColumnOf(col), value |-> value,
                                          after |-> Len(log')])
             /\ Advance
             /\ UNCHANGED <<pc, result>>

\* One iteration of the inner loop, lines 138-151.
PatchCell ==
    /\ pc = "patch"
    /\ ci <= Len(image_cols)
    /\ ri <= Len(df.rows)
    /\ LET file_path == df.rows[ri][image_cols[ci].col]
           subfolder_id == image_cols[ci].folder
       IN  \E listOut \in ListOutcomes, grantOut \in GrantOutcomes, cellOut \in {"ok", "APIError"} :
             IF IsEmpty(file_path)
             THEN /\ listOut = "ok" /\ grantOut = "ok"
                  /\ UNCHANGED <<log, perms>>
                  /\ PatchWrite(<<"no image">>, cellOut)
             ELSE LET file_name_only == Basename(file_path)
                      r == GetDriveLink(file_name_only, subfolder_id, listOut, grantOut)
                  IN  /\ (r.grantRes = "none" => grantOut = "ok")
                      /\ log' = Append(log, LogEntry(ri, image_cols[ci].col,
                                                     file_name_only, subfolder_id, r))
                      /\ perms' = PermsAfter(r)
                      /\ IF r.exc # ""
                         THEN /\ cellOut = "ok"
                              /\ Raise(r.exc)
                              /\ UNCHANGED <<cells, writes, ci, ri>>
                         ELSE IF r.ret # NoneVal
                         THEN PatchWrite(ImageFormula(r.ret), cellOut)
                         ELSE PatchWrite(<<"not found in drive">>, cellOut)
    /\ UNCHANGED <<op, sheet_name, df, image_cols, start_position,
                   exists, dims, bulk, calls>>

\* Both loops are exhausted (or image_cols is empty, line 135): the method returns.
CreateReturn ==
    /\ pc = "patch"
    /\ (ci > Len(image_cols) \/ Len(df.rows) = 0)
    /\ pc' = "done"
    /\ result' = "returned"
    /\ UNCHANGED <<op, sheet_name, df, image_cols, start_position, ci, ri,
                   exists, dims, cells, perms, log, writes, bulk, calls>>

\* add_column_with_drive_files, lines 167-174: open the spreadsheet, find the
\* sheet or raise, write the header cell.
AddColSetup ==
    /\ pc = "idle"
    /\ op = "none"
    /\ \E s \in SheetNames, d \in FileDatasets, sp \in 1..GridCols,
          out \in {"ok", "open_error", "cell_error"} :
          /\ sheet_name' = s
          /\ df' = d
          /\ start_position' = sp
          /\ op' = "addcol"
          /\ IF out = "open_error"
             THEN /\ Raise("APIError")
                  /\ UNCHANGED <<cells, writes>>
             ELSE IF ~AddColSheetFound(s)
             THEN /\ out = "ok"
                  /\ Raise("Exception")
                  /\ UNCHANGED <<cells, writes>>
             ELSE IF out = "cell_error"
             THEN /\ Raise("APIError")
                  /\ UNCHANGED <<cells, writes>>
             ELSE /\ pc' = "links"
                  /\ result' = "none"
                  /\ cells' = UpdateCell(cells, s, 1, sp, ColumnName)
                  /\ writes' = Append(writes, [pos |-> 0, col |-> "", row |-> 1,
                                               column |-> sp, value |-> ColumnName,
                                               after |-> 0])
    /\ ci' = 1
    /\ ri' = 1
    /\ UNCHANGED <<image_cols, exists, dims, perms, log, bulk, calls>>

\* One iteration of the loop of lines 176-178.
AddColRow ==
    /\ pc = "links"
    /\ ri <= Len(df.rows)
    /\ LET label == df.index[ri]
           file_link == DriveLink(df.rows[ri].DriveID)
       IN  \E cellOut \in {"ok", "APIError"} :
             IF ~label.int
             THEN /\ cellOut = "ok"
                  /\ Raise("TypeError")
                  /\ UNCHANGED <<cells, writes, ri>>
             ELSE IF cellOut # "ok"
             THEN /\ Raise("APIError")
                  /\ UNCHANGED <<cells, writes, ri>>
             ELSE /\ cells' = UpdateCell(cells, sheet_name, RowOf(label), start_position, file_link)
                  /\ writes' = Append(writes, [pos |-> ri, col |-> "", row |-> RowOf(label),
                                               column |-> start_position, value |-> file_link,
                                               after |-> 0])
                  /\ ri' = ri + 1
                  /\ UNCHANGED <<pc, result>>
    /\ UNCHANGED <<op, sheet_name, df, image_cols, start_position, ci,
                   exists, dims, perms, log, bulk, calls>>

AddColReturn ==
    /\ pc = "links"
    /\ ri > Len(df.rows)
    /\ pc' = "done"
    /\ result' = "returned"
    /\ UNCHANGED <<op, sheet_name, df, image_cols, start_position, ci, ri,
                   exists, dims, cells, perms, log, writes, bulk, calls>>

Next ==
    \/ ResolveCall
    \/ CreateSetup
    \/ PatchCell
    \/ CreateReturn
    \/ AddColSetup
    \/ AddColRow
    \/ AddColReturn

Spec == Init /\ [][Next]_vars

-----------------------------------------------------------------------------
(* Vocabulary of the properties *)

CreateReturned == op = "create" /\ pc = "done" /\ result = "returned"

\* The (image column, data row) pairs of the running call.
Pairs == {kp \in (1..Len(image_cols)) \X (1..Len(df.rows)) : TRUE}

ValueAt(k, p) == df.rows[p][image_cols[k].col]

\* The cell in which the bulk write placed row p (1-based) of image column k:
\* sheet row p + 1, sheet column = 1-based position of the column in df.columns.
CellAt(k, p) ==
    cells[sheet_name][p + 1][CHOOSE c \in 1..NCols : Columns[c] = image_cols[k].col]

\* The get_drive_link invocations made for row p of image column k.
CalledFor(k, p) == {i \in 1..Len(log) : log[i].pos = p /\ log[i].col = image_cols[k].col}

FormulaFor(file_id) == <<"=IMAGE(\"", "https://drive.google.com/uc?id=", file_id, "\")">>

IsFormula(v) == Len(v) > 0 /\ v[1] = "=IMAGE(\""

DefaultIndex == df.index = RangeIndex(Len(df.rows))

IsImageColumn(c) == \E k \in 1..Len(image_cols) : image_cols[k].col = Columns[c]

-----------------------------------------------------------------------------
(* C1 *)

ImageCellsExact ==
    \A kp \in Pairs :
        LET k == kp[1]
            p == kp[2]
            v == ValueAt(k, p)
            items == ListFiles(Basename(v), image_cols[k].folder)
        IN  (/\ ~IsEmpty(v)
             /\ items # <<>>
             /\ \E i \in CalledFor(k, p) : log[i].grantRes = "ok")
            => CellAt(k, p) = FormulaFor(items[1].id)

\* C1: when create_sheet_with_data returns, the cell of every row whose image
\* value is non-empty, whose listing returned a file and whose permission grant
\* succeeded holds exactly =IMAGE("https://drive.google.com/uc?id=<id>"), <id>
\* the id of the first file listed.
C1_ImageCellExact == CreateReturned => ImageCellsExact

\* The same for the datasets that carry pandas' default index 0..n-1.
RangeIndexImageCellsExact == (CreateReturned /\ DefaultIndex) => ImageCellsExact

-----------------------------------------------------------------------------
(* C2 *)

EmptyCellsNoImage ==
    \A kp \in Pairs :
        IsEmpty(ValueAt(kp[1], kp[2]))
            => /\ CellAt(kp[1], kp[2]) = <<"no image">>
               /\ CalledFor(kp[1], kp[2]) = {}

\* C2: when create_sheet_with_data returns, the cell of every row whose image
\* value is missing or the empty string holds exactly "no image", and no
\* listing or permission grant was issued for that (row, column) pair.
C2_EmptyIsNoImage == CreateReturned => EmptyCellsNoImage

RangeIndexEmptyIsNoImage == (CreateReturned /\ DefaultIndex) => EmptyCellsNoImage

-----------------------------------------------------------------------------
(* C3 *)

FailedCellsNotFound ==
    \A kp \in Pairs :
        \A i \in CalledFor(kp[1], kp[2]) :
            (log[i].listRes = "ok" /\ (log[i].listed = <<>> \/ log[i].grantRes = "HttpError"))
                => /\ log[i].exc = ""
                   /\ log[i].ret = NoneVal
                   /\ CellAt(kp[1], kp[2]) = <<"not found in drive">>

\* C3: a listing that returns no file, or a permission grant that fails with
\* HttpError, makes get_drive_link return None without raising; when
\* create_sheet_with_data returns, the cell of that row holds exactly
\* "not found in drive".
C3_FailureIsSentinel == CreateReturned => FailedCellsNotFound

RangeIndexFailureIsSentinel == (CreateReturned /\ DefaultIndex) => FailedCellsNotFound

-----------------------------------------------------------------------------
(* C4 *)

\* C4: once the bulk write has succeeded, no failure of a file-store request
\* (listing or permission grant) makes create_sheet_with_data raise.
C4_NoFileStoreRaise ==
    (op = "create" /\ bulk # <<>> /\ pc = "done")
        => \A i \in 1..Len(log) : log[i].exc = ""

-----------------------------------------------------------------------------
(* C5 *)

\* C5: add_column_with_drive_files called with the name of a sheet that does
\* not exist ends in an exception, without creating a sheet and without
\* changing any cell of any sheet.
C5_MissingSheetRaises ==
    [][(pc = "idle" /\ op' = "addcol" /\ sheet_name' \notin exists)
          => /\ pc' = "done"
             /\ result' \notin {"none", "returned"}
             /\ UNCHANGED <<exists, dims, cells, writes, bulk>>]_vars

C5_Witness ==
    /\ op = "addcol"
    /\ sheet_name = "T"
    /\ pc = "done"
    /\ result = "Exception"
    /\ Len(df.rows) > 0

-----------------------------------------------------------------------------
(* C6 *)

\* C6: create_sheet_with_data on the sheet "S", which exists, leaves its
\* dimensions as they were, adds no sheet, and leaves every cell outside
\* (header + data rows) x (dataset columns) with its previous content.
C6_ExistingSheetFrame ==
    (op = "create" /\ sheet_name = "S")
        => /\ dims["S"] = <<GridRows, GridCols>>
           /\ exists = {"S"}
           /\ \A r \in 1..GridRows, c \in 1..GridCols :
                 (r > Len(df.rows) + 1 \/ c > NCols) => cells["S"][r][c] = Old

RangeIndexExistingSheetFrame == DefaultIndex => C6_ExistingSheetFrame

-----------------------------------------------------------------------------
(* C7 *)

\* C7: create_sheet_with_data issues one bulk write of len(df) + 1 rows: the
\* column names in order, then every data row in order with each missing
\* value replaced by the empty string; from then on, and when the call has
\* returned, every cell of a non-image column in that range holds that value.
C7_BulkWrite ==
    (op = "create" /\ (pc = "patch" \/ result = "returned"))
        => /\ Len(bulk) = 1
           /\ Len(bulk[1]) = Len(df.rows) + 1
           /\ bulk[1][1] = <<<<"other">>, <<"img">>>>
           /\ \A p \in 1..Len(df.rows), c \in 1..NCols :
                 LET v == df.rows[p][Columns[c]]
                     w == IF v = <<"NaN">> THEN <<>> ELSE v
                 IN  /\ bulk[1][p + 1][c] = w
                     /\ ~IsImageColumn(c) => cells[sheet_name][p + 1][c] = w
           /\ \A c \in 1..NCols : cells[sheet_name][1][c] = <<Columns[c]>>

C7_Witness ==
    /\ CreateReturned
    /\ Len(df.rows) > 1
    /\ image_cols # <<>>
    /\ \E p \in 1..Len(df.rows) : df.rows[p].other = Missing
    /\ writes # <<>>

-----------------------------------------------------------------------------
(* C8 *)

SameArgs(i) == log[i].name = log[i + 1].name /\ log[i].folder = log[i + 1].folder

\* C8: two consecutive get_drive_link calls with the same arguments, that both
\* return, return the same value.
C8_SameResultTwice ==
    \A i \in 1..(Len(log) - 1) :
        (SameArgs(i) /\ log[i].exc = "" /\ log[i + 1].exc = "")
            => log[i].ret = log[i + 1].ret

\* C8, amended: two consecutive get_drive_link calls with the same arguments
\* that both return a link return the same link, the one of the first file
\* listed; each call issues its own listing and, when the listing returned a
\* file, its own permission grant on that file.
C8_SameLinkWhenBothSucceed ==
    \A i \in 1..(Len(log) - 1) :
        SameArgs(i)
            => /\ (log[i].ret # NoneVal /\ log[i + 1].ret # NoneVal)
                      => log[i].ret = log[i + 1].ret
               /\ \A j \in {i, i + 1} :
                     LET items == ListFiles(log[j].name, log[j].folder)
                     IN  /\ log[j].listRes = "ok"
                            => log[j].listed = [n \in 1..Len(items) |-> items[n].id]
                         /\ (log[j].listRes = "ok" /\ items # <<>>)
                            => (log[j].grantRes # "none" /\ log[j].grantId = items[1].id)
                         /\ log[j].ret # NoneVal
                            => (log[j].grantRes = "ok"
                                /\ log[j].ret = <<"https://drive.google.com/uc?id=", items[1].id>>)

C8_Witness ==
    \E i \in 1..(Len(log) - 1) :
        /\ SameArgs(i)
        /\ log[i].ret # NoneVal
        /\ log[i + 1].ret # NoneVal
        /\ log[i].grantRes = "ok"
        /\ log[i + 1].grantRes = "ok"

-----------------------------------------------------------------------------
(* C9 *)

\* C9: every patch write for the data row at 0-based position i goes to sheet
\* row i + 2 (and, in create_sheet_with_data, to the 1-based position of the
\* column), whatever the index labels of the dataset are.
C9_PatchTargetsRowCell ==
    \A j \in 1..Len(writes) :
        writes[j].pos > 0
            => /\ writes[j].row = (writes[j].pos - 1) + 2
               /\ op = "create"
                    => writes[j].column = (CHOOSE c \in 1..NCols : Columns[c] = writes[j].col)

RangeIndexPatchTargetsRowCell == DefaultIndex => C9_PatchTargetsRowCell

-----------------------------------------------------------------------------
(* C10 *)

\* C10: in every state of a create_sheet_with_data run, every =IMAGE formula
\* written references the id of a file whose permission grant succeeded
\* earlier in the run; a grant is only issued for the first file of a
\* listing, and none is issued when the listing is empty.
C10_FormulaOnlyAfterGrant ==
    op = "create"
        => /\ \A j \in 1..Len(writes) :
                 IsFormula(writes[j].value)
                    => \E i \in 1..writes[j].after :
                          /\ log[i].grantRes = "ok"
                          /\ log[i].grantId \in perms
                          /\ writes[j].value = FormulaFor(log[i].grantId)
           /\ \A r \in 1..GridRows, c \in 1..GridCols :
                 IsFormula(cells[sheet_name][r][c])
                    => \E i \in 1..Len(log) :
                          /\ log[i].grantRes = "ok"
                          /\ cells[sheet_name][r][c] = FormulaFor(log[i].grantId)
           /\ \A i \in 1..Len(log) :
                 LET items == ListFiles(log[i].name, log[i].folder)
                 IN  log[i].grantRes # "none"
                        => (items # <<>> /\ log[i].grantId = items[1].id)

C10_Witness ==
    /\ op = "create"
    /\ \E j \in 1..Len(writes) : IsFormula(writes[j].value)
    /\ \E i \in 1..Len(log) : log[i].grantRes = "HttpError"

====
